---- MODULE Spec2Model ----
(***************************************************************************)
(* Model of the Bikram Sambat (Nepali) calendar converter of               *)
(* modified-files/src/calendars/NepaliCalendar.ts: the packed month-length *)
(* table, the lazily built year-start index, and the conversions between   *)
(* Julian day numbers and (year, month, day).                              *)
(*                                                                         *)
(* JavaScript values are modelled as follows.  A module-level `let` that   *)
(* has not been assigned is [def |-> FALSE, arr |-> <<>>]; a typed array   *)
(* is [def |-> TRUE, arr |-> <<w0, w1, ...>>] (element i of the array is   *)
(* arr[i + 1]).  A read of a typed array yields [def, val], def = FALSE    *)
(* standing for `undefined` (an index outside 0 .. length - 1).  The       *)
(* outcome of a call is a record [kind, err, num, date]: kind "throw"      *)
(* carries the message prefix of the Error in err, kind "value" a number   *)
(* in num, kind "date" the (year, month, day) handed to                    *)
(* `new CalendarDate(this, year, month, dayInMonth)` in date.              *)
(*                                                                         *)
(* Handlers run to completion (one JavaScript thread per realm), so every  *)
(* constructor or method call is one atomic action.                        *)
(***************************************************************************)
EXTENDS Integers, Sequences, FiniteSets

(* ------------------------------ bounds --------------------------------- *)
\* Julian day numbers tried below NEPALI_EPOCH and from the first day after
\* the table onwards.
JdMargin == 3
\* Years tried below the first and above the last tabulated year.
YearMargin == 1
\* Months tried below 1 and above 12.
MonthMargin == 1
\* Largest day of month tried (no month is longer than 32 days).
MaxDay == 33
\* Callers (each constructs one calendar and then queries it) in SpecLife.
NumCallers == 2

(* ------------------------- program constants --------------------------- *)
NEPALI_EPOCH == 2419871
VIKRAM_YEAR_ZERO == 1970

\* The characters of the base64 literal VIKRAM_MONTH_DATA, in order.
VIKRAM_MONTH_DATA == <<
    "u", "h", "p", "R", "A", "L", "o", "X", "U", "Q", "D", "u", "V", "p", "A", "A", "7", "V", "a", "E", "A", "L", "o", "a",
    "U", "Q", "D", "6", "G", "V", "E", "A", "7", "l", "a", "Q", "A", "O", "1", "W", "h", "A", "C", "6", "G", "l", "E", "A",
    "+", "h", "Z", "R", "A", "O", "5", "W", "k", "A", "D", "q", "S", "l", "E", "A", "u", "h", "p", "R", "A", "P", "o", "W",
    "U", "Q", "D", "u", "V", "p", "A", "A", "6", "k", "p", "R", "A", "L", "o", "a", "U", "Q", "D", "u", "F", "l", "E", "A",
    "7", "l", "a", "Q", "A", "O", "o", "a", "U", "Q", "C", "6", "G", "l", "E", "A", "7", "h", "Z", "R", "A", "O", "5", "W",
    "h", "A", "D", "q", "G", "l", "E", "A", "u", "h", "p", "R", "A", "O", "5", "W", "U", "A", "D", "u", "V", "o", "Q", "A",
    "u", "h", "p", "R", "A", "L", "o", "a", "U", "Q", "D", "u", "V", "p", "A", "A", "7", "V", "a", "E", "A", "L", "o", "a",
    "U", "Q", "D", "6", "F", "l", "E", "A", "7", "l", "a", "Q", "A", "O", "1", "W", "h", "A", "C", "6", "G", "l", "E", "A",
    "+", "h", "Z", "R", "A", "O", "5", "W", "k", "A", "D", "q", "S", "o", "E", "A", "u", "h", "p", "R", "A", "P", "o", "W",
    "U", "Q", "D", "u", "V", "p", "A", "A", "6", "k", "p", "R", "A", "L", "o", "a", "U", "Q", "D", "6", "F", "l", "E", "A",
    "7", "l", "a", "Q", "A", "O", "p", "K", "U", "Q", "C", "6", "G", "l", "E", "A", "7", "h", "Z", "R", "A", "O", "5", "W",
    "h", "A", "D", "q", "G", "l", "E", "A", "u", "h", "p", "R", "A", "O", "5", "W", "U", "A", "D", "u", "V", "o", "Q", "A",
    "6", "h", "p", "R", "A", "L", "o", "a", "U", "Q", "D", "u", "V", "p", "A", "A", "7", "V", "a", "E", "A", "L", "o", "a",
    "U", "Q", "C", "6", "F", "1", "E", "A", "7", "l", "a", "Q", "A", "O", "1", "W", "h", "A", "C", "6", "G", "l", "E", "A",
    "+", "h", "Z", "R", "A", "O", "5", "W", "k", "A", "D", "t", "S", "o", "E", "A", "u", "h", "p", "R", "A", "P", "o", "W",
    "U", "Q", "D", "u", "V", "p", "A", "A", "6", "k", "p", "R", "A", "L", "o", "a", "U", "Q", "D", "6", "F", "l", "E", "A",
    "7", "l", "a", "Q", "A", "O", "p", "K", "U", "Q", "C", "6", "G", "l", "E", "A", "7", "h", "Z", "R", "A", "O", "5", "W",
    "k", "A", "D", "q", "G", "l", "E", "A", "u", "h", "p", "R", "A", "O", "5", "W", "U", "A", "D", "u", "V", "o", "Q", "A",
    "6", "h", "p", "R", "A", "L", "o", "a", "U", "Q", "D", "u", "V", "l", "A", "A", "7", "l", "a", "E", "A", "L", "o", "a",
    "U", "Q", "C", "6", "F", "1", "E", "A", "7", "l", "a", "Q", "A", "O", "1", "W", "h", "A", "C", "6", "G", "l", "E", "A",
    "+", "h", "Z", "R", "A", "O", "5", "W", "k", "A", "D", "t", "S", "o", "Q", "A", "u", "h", "p", "R", "A", "P", "o", "W",
    "U", "Q", "D", "u", "V", "p", "A", "A", "6", "k", "q", "B", "A", "L", "o", "a", "U", "Q", "D", "6", "F", "l", "E", "A",
    "7", "l", "a", "Q", "A", "O", "p", "K", "U", "Q", "C", "6", "G", "l", "E", "A", "7", "h", "Z", "R", "A", "O", "5", "W",
    "k", "A", "D", "q", "G", "l", "E", "A", "u", "h", "p", "R", "A", "O", "5", "W", "U", "A", "D", "u", "V", "o", "Q", "A",
    "6", "h", "p", "R", "A", "L", "o", "a", "U", "Q", "D", "u", "V", "l", "A", "A", "7", "l", "a", "E", "A", "L", "o", "a",
    "U", "Q", "C", "6", "G", "l", "E", "A", "7", "l", "a", "Q", "A", "O", "1", "W", "h", "A", "C", "6", "G", "l", "E", "A",
    "+", "h", "Z", "R", "A", "O", "5", "W", "k", "A", "D", "t", "V", "o", "Q", "A", "u", "h", "p", "R", "A", "P", "o", "W",
    "U", "Q", "D", "u", "V", "p", "A", "A", "6", "k", "q", "B", "A", "L", "o", "a", "U", "Q", "D", "6", "F", "l", "E", "A",
    "7", "l", "a", "Q", "A", "O", "p", "K", "U", "Q", "C", "6", "G", "l", "E", "A", "+", "h", "Z", "R", "A", "A", "=", "=" >>

\* The array literal of the plain-array variant of the module.
ENCODED_MONTH_LENGTHS == <<
    5315258, 5314490, 9459438, 8673005, 5315258, 5315066, 9459438, 8673005, 5315258, 5314298,
    9459438, 5327594, 5315258, 5314298, 9459438, 5327594, 5315258, 5314286, 9459438, 5315306,
    5315258, 5314286, 8673006, 5315306, 5315258, 5265134, 8673006, 5315258, 5315258, 9459438,
    8673005, 5315258, 5314298, 9459438, 8673005, 5315258, 5314298, 9459438, 8473322, 5315258,
    5314298, 9459438, 5327594, 5315258, 5314298, 9459438, 5327594, 5315258, 5314286, 8673006,
    5315306, 5315258, 5265134, 8673006, 5315306, 5315258, 9459438, 8673005, 5315258, 5314490,
    9459438, 8673005, 5315258, 5314298, 9459438, 8473325, 5315258, 5314298, 9459438, 5327594,
    5315258, 5314298, 9459438, 5327594, 5315258, 5314286, 9459438, 5315306, 5315258, 5265134,
    8673006, 5315306, 5315258, 5265134, 8673006, 5315258, 5314490, 9459438, 8673005, 5315258,
    5314298, 9459438, 8669933, 5315258, 5314298, 9459438, 8473322, 5315258, 5314298, 9459438,
    5327594, 5315258, 5314286, 9459438, 5315306, 5315258, 5265134, 8673006, 5315306, 5315258,
    5265134, 8673006, 5315258, 5315258, 9459438, 8673005, 5315258, 5314298, 9459438, 8673005,
    5315258, 5314298, 9459438, 8473322, 5315258, 5314298, 9459438, 5327594, 5315258, 5314298 >>

(* ------------------------------ atob ----------------------------------- *)
Base64Alphabet == <<
    "A", "B", "C", "D", "E", "F", "G", "H", "I", "J", "K", "L", "M", "N", "O", "P",
    "Q", "R", "S", "T", "U", "V", "W", "X", "Y", "Z", "a", "b", "c", "d", "e", "f",
    "g", "h", "i", "j", "k", "l", "m", "n", "o", "p", "q", "r", "s", "t", "u", "v",
    "w", "x", "y", "z", "0", "1", "2", "3", "4", "5", "6", "7", "8", "9", "+", "/" >>

Base64Pad == "="

\* The 6-bit value of a base64 character (0 for the padding character).
Base64Value(c) ==
    IF c = Base64Pad THEN 0
    ELSE (CHOOSE i \in 1..Len(Base64Alphabet) : Base64Alphabet[i] = c) - 1

\* Number of padding characters that end the text (0, 1 or 2).
Base64Padding(chars) ==
    IF Len(chars) >= 2 /\ chars[Len(chars)] = Base64Pad /\ chars[Len(chars) - 1] = Base64Pad
    THEN 2
    ELSE IF Len(chars) >= 1 /\ chars[Len(chars)] = Base64Pad THEN 1 ELSE 0

\* atob: every group of four characters carries 24 bits, three bytes; the
\* padding of the last group removes one byte per padding character.
Atob(chars) ==
    LET groups == Len(chars) \div 4
        quad(g) == Base64Value(chars[4 * g + 1]) * 262144
                   + Base64Value(chars[4 * g + 2]) * 4096
                   + Base64Value(chars[4 * g + 3]) * 64
                   + Base64Value(chars[4 * g + 4])
        byte(k) == LET g == (k - 1) \div 3
                       r == (k - 1) % 3
                   IN  IF r = 0 THEN quad(g) \div 65536
                       ELSE IF r = 1 THEN (quad(g) \div 256) % 256
                       ELSE quad(g) % 256
    IN  [k \in 1..(3 * groups - Base64Padding(chars)) |-> byte(k)]

\* new Uint32Array(buffer): four bytes per element, least significant byte
\* first (the byte order of every platform the package is built for).
Uint32ArrayOfBytes(bytes) ==
    [i \in 1..(Len(bytes) \div 4) |->
        bytes[4 * i - 3] + 256 * bytes[4 * i - 2]
        + 65536 * bytes[4 * i - 1] + 16777216 * bytes[4 * i]]

\* The decoded month-length words: line 48 of the constructor.
DecodeMonthData == Uint32ArrayOfBytes(Atob(VIKRAM_MONTH_DATA))

(* --------------------------- JavaScript values -------------------------- *)
Undefined == [def |-> FALSE, arr |-> <<>>]
TypedArray(words) == [def |-> TRUE, arr |-> words]

\* table[i] of a typed array: undefined outside 0 .. length - 1.
TypedGet(table, i) ==
    IF i >= 0 /\ i < Len(table.arr)
    THEN [def |-> TRUE, val |-> table.arr[i + 1]]
    ELSE [def |-> FALSE, val |-> 0]

\* a >= v where v may be undefined: a comparison with undefined (NaN) is false.
JsGreaterEq(a, v) == v.def /\ a >= v.val

NoDate == <<0, 0, 0>>
NoRet == [kind |-> "none", err |-> "", num |-> 0, date |-> NoDate]
Throw(msg) == [kind |-> "throw", err |-> msg, num |-> 0, date |-> NoDate]
Value(n) == [kind |-> "value", err |-> "", num |-> n, date |-> NoDate]
DateOf(y, m, d) == [kind |-> "date", err |-> "", num |-> 0, date |-> <<y, m, d>>]

(* -------------------------- vikramMonthLength --------------------------- *)
\* Mutant: the shift counts months, not pairs of bits.
MonthShiftSingle(month) == month - 1

\* (month - 1) << 1
MonthShift(month) == (month - 1) * 2

\* Mutant: the mask keeps one bit of the field.
ExtraDaysOneBit(delta, shift) == (delta \div (2 ^ shift)) % 2

\* (delta >>> shift) & 3
ExtraDays(delta, shift) == (delta \div (2 ^ shift)) % 4

\* Mutant: the baseline is 28 days.
vikramMonthLengthBase28(monthLength, year, month) ==
    IF month < 1 \/ month > 12 THEN Throw("Invalid month value")
    ELSE LET delta == TypedGet(monthLength, year - VIKRAM_YEAR_ZERO)
         IN  IF ~delta.def THEN Throw("No data for year")
             ELSE Value(28 + ExtraDays(delta.val, MonthShift(month)))

vikramMonthLength(monthLength, year, month) ==
    IF month < 1 \/ month > 12 THEN Throw("Invalid month value")
    ELSE LET delta == TypedGet(monthLength, year - VIKRAM_YEAR_ZERO)
         IN  IF ~delta.def THEN Throw("No data for year")
             ELSE Value(29 + ExtraDays(delta.val, MonthShift(month)))

(* ----------------------------- constructor ----------------------------- *)
\* Mutant: the constructor rebuilds whether or not the table is there.
IsUnsetAlways(table) == TRUE

\* !VIKRAM_MONTHLENGTH, !VIKRAM_YEAR_START_TABLE: a typed array is an object
\* and so truthy, also when it is empty; only the unassigned `let` is falsy.
IsUnset(table) == ~table.def

\* new Uint32Array(n): n zeroes.
NewUint32Array(n) == [i \in 1..n |-> 0]

\* Mutant: the loop over the months stops one month early.
RECURSIVE AddMonthsShort(_, _, _, _, _)
AddMonthsShort(monthLength, year, i, last, acc) ==
    IF i >= last THEN acc
    ELSE AddMonthsShort(monthLength, year, i + 1, last,
                        acc + vikramMonthLength(monthLength, year, i).num)

\* The loops over the months i .. last that add month lengths to acc:
\* lines 59-61 (1 .. 12), 123-125 (1 .. month - 1) and 143-145 (1 .. 12).
RECURSIVE AddMonths(_, _, _, _, _)
AddMonths(monthLength, year, i, last, acc) ==
    IF i > last THEN acc
    ELSE AddMonths(monthLength, year, i + 1, last,
                   acc + vikramMonthLength(monthLength, year, i).num)

\* Mutant: the loop over the years stops before the last tabulated year.
LastLoopYearShort(monthLength) == VIKRAM_YEAR_ZERO + Len(monthLength.arr) - 2

\* Last year the constructor's loop visits.
LastLoopYear(monthLength) == VIKRAM_YEAR_ZERO + Len(monthLength.arr) - 1

\* Mutant: the entry of a year is written after its months are added.
YearStepAfter(monthLength, st, year) ==
    [table |-> [st.table EXCEPT ![year - VIKRAM_YEAR_ZERO + 1] =
                    AddMonths(monthLength, year, 1, 12, st.yearStart)],
     yearStart |-> AddMonths(monthLength, year, 1, 12, st.yearStart)]

\* One iteration of the constructor's loop over the years (lines 58-61), on
\* the loop's state [table, yearStart].
YearStep(monthLength, st, year) ==
    [table |-> [st.table EXCEPT ![year - VIKRAM_YEAR_ZERO + 1] = st.yearStart],
     yearStart |-> AddMonths(monthLength, year, 1, 12, st.yearStart)]

\* The iterations year = first .. last of that loop, in order: the first half
\* of the range, then the second half on the state the first half left.  (The
\* halving and the test of `half` only keep the evaluation shallow: the test
\* makes the first half finish before the second starts; yearStart is never
\* negative.)
RECURSIVE YearStartLoop(_, _, _, _)
YearStartLoop(monthLength, st, first, last) ==
    IF first > last THEN st
    ELSE IF first = last THEN YearStep(monthLength, st, first)
    ELSE LET mid == (first + last) \div 2
             half == YearStartLoop(monthLength, st, first, mid)
         IN  IF half.yearStart >= 0
             THEN YearStartLoop(monthLength, half, mid + 1, last)
             ELSE half

BuildYearStartTable(monthLength) ==
    TypedArray(YearStartLoop(monthLength,
                             [table |-> NewUint32Array(Len(monthLength.arr)),
                              yearStart |-> 0],
                             VIKRAM_YEAR_ZERO, LastLoopYear(monthLength)).table)

(* ---------------------------- fromJulianDay ----------------------------- *)
\* Mutant: the search narrows on VIKRAM_YEAR_START_TABLE[mid] < days.
RECURSIVE YearSearchStrict(_, _, _, _)
YearSearchStrict(yearStart, days, low, high) ==
    IF low < high
    THEN LET mid == (low + high) \div 2
             at == TypedGet(yearStart, mid)
         IN  IF at.def /\ at.val < days
             THEN YearSearchStrict(yearStart, days, mid + 1, high)
             ELSE YearSearchStrict(yearStart, days, low, mid)
    ELSE low

\* The half-open binary search of lines 76-85; the result is `low`.
RECURSIVE YearSearch(_, _, _, _)
YearSearch(yearStart, days, low, high) ==
    IF low < high
    THEN LET mid == (low + high) \div 2
         IN  IF JsGreaterEq(days, TypedGet(yearStart, mid))
             THEN YearSearch(yearStart, days, mid + 1, high)
             ELSE YearSearch(yearStart, days, low, mid)
    ELSE low

\* Mutant: the scan leaves a month only when the day is past its length + 1.
RECURSIVE MonthScanLate(_, _, _, _)
MonthScanLate(monthLength, year, month, dayInMonth) ==
    IF month <= 12
    THEN LET daysInMonth == vikramMonthLength(monthLength, year, month).num
         IN  IF dayInMonth <= daysInMonth + 1 THEN <<month, dayInMonth>>
             ELSE MonthScanLate(monthLength, year, month + 1, dayInMonth - daysInMonth)
    ELSE <<month, dayInMonth>>

\* The month scan of lines 94-101; the result is <<month, dayInMonth>>.
RECURSIVE MonthScan(_, _, _, _)
MonthScan(monthLength, year, month, dayInMonth) ==
    IF month <= 12
    THEN LET daysInMonth == vikramMonthLength(monthLength, year, month).num
         IN  IF dayInMonth <= daysInMonth THEN <<month, dayInMonth>>
             ELSE MonthScan(monthLength, year, month + 1, dayInMonth - daysInMonth)
    ELSE <<month, dayInMonth>>

\* Mutant: the first day of the table is outside the range.
OutsideRangeEpoch(yearStart, days, yearCount) ==
    days <= 0 \/ JsGreaterEq(days, TypedGet(yearStart, yearCount))

\* The range test of line 72: days < 0 || days >= VIKRAM_YEAR_START_TABLE[yearCount].
OutsideRange(yearStart, days, yearCount) ==
    days < 0 \/ JsGreaterEq(days, TypedGet(yearStart, yearCount))

fromJulianDay(monthLength, yearStart, jd) ==
    LET days == jd - NEPALI_EPOCH
        yearCount == Len(monthLength.arr)
    IN  IF OutsideRange(yearStart, days, yearCount)
        THEN Throw("Date outside supported range")
        ELSE LET low == YearSearch(yearStart, days, 0, yearCount)
                 yearIndex == low - 1
                 year == VIKRAM_YEAR_ZERO + yearIndex
                 dayOfYear == days - TypedGet(yearStart, yearIndex).val
                 md == MonthScan(monthLength, year, 1, dayOfYear + 1)
             IN  DateOf(year, md[1], md[2])

(* ----------------------------- toJulianDay ------------------------------ *)
\* Mutant: the year after the last tabulated year passes the test.
YearOutsideLate(monthLength, year) ==
    year < VIKRAM_YEAR_ZERO \/ year > VIKRAM_YEAR_ZERO + Len(monthLength.arr)

\* year < VIKRAM_YEAR_ZERO || year >= VIKRAM_YEAR_ZERO + VIKRAM_MONTHLENGTH.length
YearOutside(monthLength, year) ==
    year < VIKRAM_YEAR_ZERO \/ year >= VIKRAM_YEAR_ZERO + Len(monthLength.arr)

toJulianDay(monthLength, yearStart, date) ==
    LET year == date[1]
        month == date[2]
        day == date[3]
        length == vikramMonthLength(monthLength, year, month)
    IN  IF YearOutside(monthLength, year) THEN Throw("Year outside supported range")
        ELSE IF month < 1 \/ month > 12 THEN Throw("Invalid month")
        ELSE IF length.kind = "throw" THEN length
        ELSE IF day < 1 \/ day > length.num THEN Throw("Invalid day")
        ELSE Value(AddMonths(monthLength, year, 1, month - 1,
                             NEPALI_EPOCH
                             + TypedGet(yearStart, year - VIKRAM_YEAR_ZERO).val)
                   + (day - 1))

(* ------------------------------- queries -------------------------------- *)
getDaysInMonth(monthLength, date) == vikramMonthLength(monthLength, date[1], date[2])

\* Mutant: no separate sum for the last tabulated year.
getDaysInYearByIndex(monthLength, yearStart, date) ==
    LET year == date[1]
    IN  IF YearOutside(monthLength, year) THEN Throw("Year outside supported range")
        ELSE Value(TypedGet(yearStart, year + 1 - VIKRAM_YEAR_ZERO).val
                   - TypedGet(yearStart, year - VIKRAM_YEAR_ZERO).val)

getDaysInYear(monthLength, yearStart, date) ==
    LET year == date[1]
    IN  IF YearOutside(monthLength, year) THEN Throw("Year outside supported range")
        ELSE IF year = VIKRAM_YEAR_ZERO + Len(monthLength.arr) - 1
        THEN Value(AddMonths(monthLength, year, 1, 12, 0))
        ELSE Value(TypedGet(yearStart, year + 1 - VIKRAM_YEAR_ZERO).val
                   - TypedGet(yearStart, year - VIKRAM_YEAR_ZERO).val)

getYearsInEra(monthLength) == Value(VIKRAM_YEAR_ZERO + Len(monthLength.arr) - 1)

(* ------------------------------- state ---------------------------------- *)
VARIABLES
    VIKRAM_MONTHLENGTH,       \* the module-level month-length table
    VIKRAM_YEAR_START_TABLE,  \* the module-level year-start index
    calendars,                \* the callers that hold a NepaliCalendar
    decodeRuns,               \* how often line 48 has run
    buildRuns,                \* how often lines 54-62 have run
    call,                     \* the method call made last, or NoCall
    ret,                      \* its outcome
    prev                      \* the call before it, when its outcome fed this one

vars == <<VIKRAM_MONTHLENGTH, VIKRAM_YEAR_START_TABLE, calendars, decodeRuns,
          buildRuns, call, ret, prev>>

tables == <<VIKRAM_MONTHLENGTH, VIKRAM_YEAR_START_TABLE, decodeRuns, buildRuns>>

NoCall == [op |-> "idle", caller |-> 0, jd |-> 0, date |-> NoDate]
NoPrev == [call |-> NoCall, ret |-> NoRet]

(* ------------------------------- inputs --------------------------------- *)
\* The two bits 2(m-1)+1 and 2(m-1) of a word, as a number 0..3.
Field2(word, m) ==
    (((word \div (2 ^ (2 * m - 1))) % 2) * 2) + ((word \div (2 ^ (2 * m - 2))) % 2)

TabulatedYears == VIKRAM_YEAR_ZERO .. (VIKRAM_YEAR_ZERO + Len(ENCODED_MONTH_LENGTHS) - 1)
LastTabulatedYear == VIKRAM_YEAR_ZERO + Len(ENCODED_MONTH_LENGTHS) - 1

\* Month lengths and day totals read off the table literal, bit by bit.
TableMonthLength[y \in TabulatedYears, m \in 1..12] ==
    29 + Field2(ENCODED_MONTH_LENGTHS[y - VIKRAM_YEAR_ZERO + 1], m)

\* f[lo] + ... + f[hi]
RECURSIVE SumOver(_, _, _)
SumOver(f, lo, hi) ==
    IF lo > hi THEN 0
    ELSE IF lo = hi THEN f[lo]
    ELSE SumOver(f, lo, (lo + hi) \div 2) + SumOver(f, (lo + hi) \div 2 + 1, hi)

TableYearLength[y \in TabulatedYears] ==
    SumOver([m \in 1..12 |-> TableMonthLength[y, m]], 1, 12)

TotalDaysInTable == SumOver(TableYearLength, VIKRAM_YEAR_ZERO, LastTabulatedYear)

ValidDate(date) ==
    /\ date[1] \in TabulatedYears
    /\ date[2] \in 1..12
    /\ date[3] \in 1..TableMonthLength[date[1], date[2]]

LexLess(a, b) ==
    \/ a[1] < b[1]
    \/ a[1] = b[1] /\ a[2] < b[2]
    \/ a[1] = b[1] /\ a[2] = b[2] /\ a[3] < b[3]

JdInputs == (NEPALI_EPOCH - JdMargin) .. (NEPALI_EPOCH + TotalDaysInTable + JdMargin - 1)

DateInputs ==
    ((VIKRAM_YEAR_ZERO - YearMargin) .. (LastTabulatedYear + YearMargin))
    \X ((1 - MonthMargin) .. (12 + MonthMargin))
    \X (0 .. MaxDay)

\* Dates that differ in year and month only: getDaysInMonth reads no day.
MonthInputs == {d \in DateInputs : d[3] = 1}

\* Dates that differ in year only: getDaysInYear reads no month and no day.
YearInputs == {d \in DateInputs : d[2] = 1 /\ d[3] = 1}

\* Later dates to compare a converted date with: the next day, the first day
\* of the next month and of the next year, and the start of the last month
\* of the table.
LaterDates(a) ==
    {b \in { <<a[1], a[2], a[3] + 1>>, <<a[1], a[2] + 1, 1>>, <<a[1] + 1, 1, 1>>,
             <<LastTabulatedYear, 12, 1>> } :
        LexLess(a, b) /\ (b[3] > 1 \/ a[3] >= 29 \/ a[3] = 1)}

SmallJdInputs ==
    { NEPALI_EPOCH - 1, NEPALI_EPOCH, NEPALI_EPOCH + TotalDaysInTable - 1,
      NEPALI_EPOCH + TotalDaysInTable }

SmallDateInputs ==
    { <<VIKRAM_YEAR_ZERO, 1, 1>>, <<LastTabulatedYear, 12, 30>>,
      <<VIKRAM_YEAR_ZERO - 1, 1, 1>>, <<VIKRAM_YEAR_ZERO, 13, 1>> }

Callers == 1..NumCallers

(* ------------------------------- actions -------------------------------- *)
Init ==
    /\ VIKRAM_MONTHLENGTH = Undefined
    /\ VIKRAM_YEAR_START_TABLE = Undefined
    /\ calendars = {}
    /\ decodeRuns = 0
    /\ buildRuns = 0
    /\ call = NoCall
    /\ ret = NoRet
    /\ prev = NoPrev

\* The plain-array variant of the module has its month table from the start.
InitLife ==
    /\ VIKRAM_MONTHLENGTH \in {Undefined, TypedArray(ENCODED_MONTH_LENGTHS)}
    /\ VIKRAM_YEAR_START_TABLE = Undefined
    /\ calendars = {}
    /\ decodeRuns = 0
    /\ buildRuns = 0
    /\ call = NoCall
    /\ ret = NoRet
    /\ prev = NoPrev

\* new NepaliCalendar() by caller c.
Construct(c) ==
    /\ c \notin calendars
    /\ LET decode == IsUnset(VIKRAM_MONTHLENGTH)
           build == IsUnset(VIKRAM_YEAR_START_TABLE)
           monthLength == IF decode THEN TypedArray(DecodeMonthData)
                          ELSE VIKRAM_MONTHLENGTH
       IN  /\ VIKRAM_MONTHLENGTH' = monthLength
           /\ decodeRuns' = IF decode THEN decodeRuns + 1 ELSE decodeRuns
           /\ VIKRAM_YEAR_START_TABLE' =
                  IF build THEN BuildYearStartTable(monthLength)
                  ELSE VIKRAM_YEAR_START_TABLE
           /\ buildRuns' = IF build THEN buildRuns + 1 ELSE buildRuns
    /\ calendars' = calendars \cup {c}
    /\ call' = NoCall
    /\ ret' = NoRet
    /\ prev' = NoPrev

\* A method call by caller c: either a fresh call, or one fed with the
\* outcome of the call before it (then that call is kept in prev).
Invoke(c, op, jd, date, outcome) ==
    /\ c \in calendars
    /\ call.op = "idle" \/ (call.caller = c /\ prev = NoPrev)
    /\ call' = [op |-> op, caller |-> c, jd |-> jd, date |-> date]
    /\ ret' = outcome
    /\ prev' = IF call.op = "idle" THEN NoPrev ELSE [call |-> call, ret |-> ret]
    /\ UNCHANGED <<tables, calendars>>

\* calendar.fromJulianDay(jd): jd is an input or the day count just returned.
FromJulianDay(c, inputs) ==
    \E jd \in (IF call.op = "idle" THEN inputs
               ELSE IF call.op = "toJulianDay" /\ ret.kind = "value" THEN {ret.num}
               ELSE {}) :
        Invoke(c, "fromJulianDay", jd, NoDate,
               fromJulianDay(VIKRAM_MONTHLENGTH, VIKRAM_YEAR_START_TABLE, jd))

\* calendar.toJulianDay(date): date is an input, the date just returned, or a
\* date later than the one just converted.
ToJulianDay(c, inputs) ==
    \E date \in (IF call.op = "idle" THEN inputs
                 ELSE IF call.op = "fromJulianDay" /\ ret.kind = "date" THEN {ret.date}
                 ELSE IF call.op = "toJulianDay" /\ ret.kind = "value"
                 THEN LaterDates(call.date)
                 ELSE {}) :
        Invoke(c, "toJulianDay", 0, date,
               toJulianDay(VIKRAM_MONTHLENGTH, VIKRAM_YEAR_START_TABLE, date))

GetDaysInMonth(c, inputs) ==
    \E date \in inputs :
        /\ call.op = "idle"
        /\ Invoke(c, "getDaysInMonth", 0, date, getDaysInMonth(VIKRAM_MONTHLENGTH, date))

GetDaysInYear(c, inputs) ==
    \E date \in inputs :
        /\ call.op = "idle"
        /\ Invoke(c, "getDaysInYear", 0, date,
                  getDaysInYear(VIKRAM_MONTHLENGTH, VIKRAM_YEAR_START_TABLE, date))

GetYearsInEra(c) ==
    /\ call.op = "idle"
    /\ Invoke(c, "getYearsInEra", 0, NoDate, getYearsInEra(VIKRAM_MONTHLENGTH))

\* The caller is done with the outcome of its last call.
Forget ==
    /\ call.op # "idle"
    /\ call' = NoCall
    /\ ret' = NoRet
    /\ prev' = NoPrev
    /\ UNCHANGED <<tables, calendars>>

\* One caller, every input of the bounded domain.
Next ==
    \/ Construct(1)
    \/ FromJulianDay(1, JdInputs)
    \/ ToJulianDay(1, DateInputs)
    \/ GetDaysInMonth(1, MonthInputs)
    \/ GetDaysInYear(1, YearInputs)
    \/ GetYearsInEra(1)
    \/ Forget

Spec == Init /\ [][Next]_vars

\* Several callers, both variants of the module, a few inputs.
NextLife ==
    \/ \E c \in Callers : Construct(c)
    \/ \E c \in Callers : FromJulianDay(c, SmallJdInputs)
    \/ \E c \in Callers : ToJulianDay(c, SmallDateInputs)
    \/ \E c \in Callers : GetDaysInMonth(c, SmallDateInputs)
    \/ \E c \in Callers : GetDaysInYear(c, SmallDateInputs)
    \/ \E c \in Callers : GetYearsInEra(c)
    \/ Forget

SpecLife == InitLife /\ [][NextLife]_vars

(* ------------------------------ properties ------------------------------ *)
\* The error kinds of the specification, by the message the code throws.
ErrorKind(msg) ==
    CASE msg \in {"Invalid month value", "Invalid month"} -> "InvalidMonth"
      [] msg \in {"No data for year", "Year outside supported range"} -> "YearOutOfRange"
      [] msg = "Invalid day" -> "InvalidDay"
      [] msg = "Date outside supported range" -> "DateOutOfRange"
      [] OTHER -> "unknown"

Fails(outcome, kind) == outcome.kind = "throw" /\ ErrorKind(outcome.err) = kind

InTable(jd) == jd >= NEPALI_EPOCH /\ jd < NEPALI_EPOCH + TotalDaysInTable

LastDate == <<LastTabulatedYear, 12, TableMonthLength[LastTabulatedYear, 12]>>

\* C1: for every tabulated year, month 1..12 and day 1..monthLength(year, month),
\* toJulianDay returns a day count and fromJulianDay of that day count returns
\* exactly the date (year, month, day).
RoundTripFromDates ==
    /\ (call.op = "toJulianDay" /\ ValidDate(call.date)) => ret.kind = "value"
    /\ (call.op = "fromJulianDay" /\ prev.call.op = "toJulianDay"
        /\ ValidDate(prev.call.date))
       => ret = DateOf(prev.call.date[1], prev.call.date[2], prev.call.date[3])

RoundTripFromDatesWitness ==
    /\ call.op = "fromJulianDay"
    /\ prev.call.op = "toJulianDay"
    /\ prev.call.date = LastDate
    /\ ret.date = LastDate

\* C2: for every jdn with EPOCH <= jdn < EPOCH + totalDaysInTable, fromJulianDay
\* returns a date and toJulianDay of that date returns jdn.
InverseFromDayCounts ==
    /\ (call.op = "fromJulianDay" /\ InTable(call.jd)) => ret.kind = "date"
    /\ (call.op = "toJulianDay" /\ prev.call.op = "fromJulianDay"
        /\ InTable(prev.call.jd))
       => ret = Value(prev.call.jd)

InverseFromDayCountsWitness ==
    /\ call.op = "toJulianDay"
    /\ prev.call.op = "fromJulianDay"
    /\ prev.call.jd = NEPALI_EPOCH + TotalDaysInTable - 1
    /\ call.date = LastDate
    /\ ret.num = prev.call.jd

\* C3: for every jdn with jdn - EPOCH >= totalDaysInTable, fromJulianDay fails
\* with the date-out-of-range error and returns no date.
UpperRangeBound ==
    (call.op = "fromJulianDay" /\ call.jd - NEPALI_EPOCH >= TotalDaysInTable)
    => Fails(ret, "DateOutOfRange")

\* C4: toJulianDay({1970,1,1}) = 2419871, fromJulianDay(2419871) = (1970,1,1),
\* and fromJulianDay(jdn) fails with the date-out-of-range error for every
\* jdn < 2419871.
EpochLowerBoundary ==
    /\ (call.op = "toJulianDay" /\ call.date = <<1970, 1, 1>>) => ret = Value(2419871)
    /\ (call.op = "fromJulianDay" /\ call.jd = 2419871) => ret = DateOf(1970, 1, 1)
    /\ (call.op = "fromJulianDay" /\ call.jd < 2419871) => Fails(ret, "DateOutOfRange")

EpochLowerBoundaryWitness ==
    /\ call.op = "fromJulianDay"
    /\ call.jd = 2419870
    /\ Fails(ret, "DateOutOfRange")

\* C5: toJulianDay fails with the year-out-of-range error for a year outside
\* the table, otherwise with the invalid-month error for a month outside 1..12,
\* otherwise with the invalid-day error for a day outside 1..monthLength; it
\* returns a day count only when all three fields are valid.
ToJulianDayRejects ==
    call.op = "toJulianDay" =>
        IF call.date[1] \notin TabulatedYears THEN Fails(ret, "YearOutOfRange")
        ELSE IF call.date[2] \notin 1..12 THEN Fails(ret, "InvalidMonth")
        ELSE IF call.date[3] \notin 1..TableMonthLength[call.date[1], call.date[2]]
        THEN Fails(ret, "InvalidDay")
        ELSE ret.kind = "value"

ToJulianDayRejectsWitness ==
    /\ call.op = "toJulianDay"
    /\ call.date = <<1970, 13, 1>>
    /\ Fails(ret, "InvalidMonth")

\* C6: for two valid dates a and b with (a.year, a.month, a.day) lexicographically
\* smaller than (b.year, b.month, b.day), toJulianDay(a) < toJulianDay(b).
Monotonic ==
    (/\ call.op = "toJulianDay"
     /\ prev.call.op = "toJulianDay"
     /\ ValidDate(prev.call.date)
     /\ ValidDate(call.date)
     /\ LexLess(prev.call.date, call.date))
    => (prev.ret.kind = "value" /\ ret.kind = "value" /\ prev.ret.num < ret.num)

MonotonicWitness ==
    /\ call.op = "toJulianDay"
    /\ prev.call.op = "toJulianDay"
    /\ prev.call.date = <<1970, 12, TableMonthLength[1970, 12]>>
    /\ call.date = <<1971, 1, 1>>
    /\ ret.num = prev.ret.num + 1

\* C7: once a calendar has been constructed, no construction and no query,
\* successful or failing, writes the month-length table or the year-start index.
WriteOnce == [][calendars # {} => UNCHANGED tables]_vars

WriteOnceWitness ==
    /\ Cardinality(calendars) >= 2
    /\ buildRuns = 1
    /\ call.op = "toJulianDay"
    /\ ret.kind = "throw"

\* The year-start index of the whole table.
FullYearStartTable ==
    TypedArray([i \in 1..Len(ENCODED_MONTH_LENGTHS) |->
                   SumOver(TableYearLength, VIKRAM_YEAR_ZERO, VIKRAM_YEAR_ZERO + i - 2)])

\* C8: with the constructions and queries of several callers interleaved, the
\* decoding and the building of the index each run at most once and the index
\* exactly once, and every caller that holds a calendar (so every query) sees
\* the same pair of tables, both filled for every tabulated year.
BuiltOnceAndWhole ==
    /\ (call.op # "idle" => call.caller \in calendars)
    /\ calendars = {} => (buildRuns = 0 /\ decodeRuns = 0)
    /\ calendars # {} =>
        /\ buildRuns = 1
        /\ decodeRuns <= 1
        /\ VIKRAM_MONTHLENGTH = TypedArray(ENCODED_MONTH_LENGTHS)
        /\ VIKRAM_YEAR_START_TABLE = FullYearStartTable

BuiltOnceAndWholeWitness ==
    /\ calendars = Callers
    /\ decodeRuns = 1
    /\ buildRuns = 1
    /\ call.op = "fromJulianDay"
    /\ call.caller = NumCallers
    /\ ret = DateOf(LastDate[1], LastDate[2], LastDate[3])

\* C9: getDaysInYear(y) is the sum of the twelve month lengths of y for every
\* tabulated year y, the last one included, and fails with the
\* year-out-of-range error for every other year.
DaysInYearIsSum ==
    call.op = "getDaysInYear" =>
        IF call.date[1] \in TabulatedYears
        THEN ret = Value(TableYearLength[call.date[1]])
        ELSE Fails(ret, "YearOutOfRange")

DaysInYearIsSumWitness ==
    /\ call.op = "getDaysInYear"
    /\ call.date[1] = LastTabulatedYear
    /\ ret = Value(TableYearLength[LastTabulatedYear])

\* C10: getDaysInMonth fails with the invalid-month error for a month outside
\* 1..12, otherwise with the year-out-of-range error for a year without a table
\* word, and otherwise returns 29 plus the two bits 2(m-1), 2(m-1)+1 of the
\* word of the year.
DaysInMonthIsField ==
    call.op = "getDaysInMonth" =>
        IF call.date[2] \notin 1..12 THEN Fails(ret, "InvalidMonth")
        ELSE IF call.date[1] \notin TabulatedYears THEN Fails(ret, "YearOutOfRange")
        ELSE ret = Value(29 + Field2(VIKRAM_MONTHLENGTH.arr[call.date[1] - 1970 + 1],
                                     call.date[2]))

DaysInMonthIsFieldWitness ==
    /\ call.op = "getDaysInMonth"
    /\ call.date[1] = 2081
    /\ call.date[2] = 12
    /\ ret.kind = "value"
    /\ ret.num > 29

\* C11 as stated: getDaysInMonth for year 1970, month 1 is the value of the
\* table for that slot, and that value is 29 or 30.
FirstMonthIs29Or30 ==
    (call.op = "getDaysInMonth" /\ call.date[1] = 1970 /\ call.date[2] = 1)
    => /\ ret = Value(29 + Field2(ENCODED_MONTH_LENGTHS[1], 1))
       /\ ret.num \in {29, 30}

\* C11 as amended: getDaysInMonth for year 1970, month 1 is the value of the
\* table for that slot, and that value is 31.
FirstMonthIsTableValue ==
    (call.op = "getDaysInMonth" /\ call.date[1] = 1970 /\ call.date[2] = 1)
    => /\ ret = Value(29 + Field2(ENCODED_MONTH_LENGTHS[1], 1))
       /\ ret.num = 31

FirstMonthIsTableValueWitness ==
    /\ call.op = "getDaysInMonth"
    /\ call.date[1] = 1970
    /\ call.date[2] = 1
    /\ ret = Value(31)

\* Element i (from 0) of the year-start index.
IndexAt(i) == VIKRAM_YEAR_START_TABLE.arr[i + 1]

\* C12: after the first construction the year-start index has one entry per
\* tabulated year, index[0] = 0, index[i] = index[i-1] plus the twelve month
\* lengths of year 1970 + i - 1 for every i >= 1, and it is strictly increasing.
YearStartIndexBuilt ==
    calendars # {} =>
        /\ VIKRAM_YEAR_START_TABLE.def
        /\ Len(VIKRAM_YEAR_START_TABLE.arr) = Len(VIKRAM_MONTHLENGTH.arr)
        /\ Len(VIKRAM_YEAR_START_TABLE.arr) = Cardinality(TabulatedYears)
        /\ IndexAt(0) = 0
        /\ \A i \in 1..(Len(VIKRAM_YEAR_START_TABLE.arr) - 1) :
              /\ IndexAt(i) = IndexAt(i - 1) + TableYearLength[VIKRAM_YEAR_ZERO + i - 1]
              /\ IndexAt(i) > IndexAt(i - 1)

YearStartIndexBuiltWitness ==
    /\ calendars # {}
    /\ Len(VIKRAM_YEAR_START_TABLE.arr) = 130
    /\ IndexAt(129) = TotalDaysInTable - TableYearLength[LastTabulatedYear]
    /\ call.op = "getYearsInEra"

\* C13: for every days = jdn - EPOCH with 0 <= days < totalDaysInTable the
\* binary search ends with yearIndex = low - 1 the largest i in
\* 0..tableLength-1 with index[i] <= days (the year returned is 1970 +
\* yearIndex), and 0 <= days - index[yearIndex] < days of year 1970 + yearIndex.
YearSearchFindsYear ==
    (call.op = "fromJulianDay" /\ InTable(call.jd)) =>
        LET days == call.jd - NEPALI_EPOCH
            count == Len(VIKRAM_YEAR_START_TABLE.arr)
            yearIndex == YearSearch(VIKRAM_YEAR_START_TABLE, days, 0, count) - 1
        IN  /\ yearIndex \in 0..(count - 1)
            /\ IndexAt(yearIndex) <= days
            /\ \A i \in 0..(count - 1) : IndexAt(i) <= days => i <= yearIndex
            /\ days - IndexAt(yearIndex) >= 0
            /\ days - IndexAt(yearIndex) < TableYearLength[VIKRAM_YEAR_ZERO + yearIndex]
            /\ ret.kind = "date"
            /\ ret.date[1] = VIKRAM_YEAR_ZERO + yearIndex

\* The first day of year 1971: days equals an entry of the index.
YearSearchFindsYearWitness ==
    /\ call.op = "fromJulianDay"
    /\ call.jd = NEPALI_EPOCH + TableYearLength[VIKRAM_YEAR_ZERO]
    /\ ret = DateOf(VIKRAM_YEAR_ZERO + 1, 1, 1)

\* C14: for every tabulated year the twelve decoded month lengths sum to 365 or
\* 366, and consecutive entries of the year-start index differ by 365 or 366.
YearsHave365Or366Days ==
    calendars # {} =>
        /\ \A y \in TabulatedYears :
              AddMonths(VIKRAM_MONTHLENGTH, y, 1, 12, 0) \in {365, 366}
        /\ \A i \in 1..(Len(VIKRAM_YEAR_START_TABLE.arr) - 1) :
              IndexAt(i) - IndexAt(i - 1) \in {365, 366}

YearsHave365Or366DaysWitness ==
    /\ calendars # {}
    /\ AddMonths(VIKRAM_MONTHLENGTH, 1970, 1, 12, 0) = 365
    /\ AddMonths(VIKRAM_MONTHLENGTH, 1972, 1, 12, 0) = 366
    /\ IndexAt(3) - IndexAt(2) = 366
    /\ call.op = "getDaysInYear"

====
